---- MODULE Spec2Model ----
(***************************************************************************)
(* A model of notebooks/code/data_preparation.py (SparkSessionSingleton,  *)
(* SMILESTokenizer) and notebooks/code/score_transformation_code.py       *)
(* (TransformationFactory).                                               *)
(*                                                                         *)
(* Strings are sequences of one-character strings; a token is such a      *)
(* sequence, a token list a sequence of tokens.                           *)
(***************************************************************************)
EXTENDS Integers, Sequences, FiniteSets, TLC

VARIABLES
    \* SMILESTokenizer: the argument and result of tokenize / untokenize
    pc, smiles, with_begin_and_end, tokens, smi,
    \* TransformationFactory: its registry, the callers that share it and,
    \* for each caller, the arguments, the resolved function, the outcome of
    \* the last call and the caller's position
    registry, callers, parameters, predictions, transformation_function,
    outcome, tpc,
    \* SparkSessionSingleton: the class attribute SESSIONS, the sessions
    \* Spark has made (1..created) and those closed, the value the last
    \* get returned, and a record of the calls since the last cleanup:
    \* per app name the sessions built and the pairs returned, and what the
    \* last call did
    SESSIONS, created, closed, returned, built, given, last

TokVars == <<pc, smiles, with_begin_and_end, tokens, smi>>
TransVars == <<registry, callers, parameters, predictions,
               transformation_function, outcome, tpc>>
SparkVars == <<SESSIONS, created, closed, returned, built, given, last>>
vars == <<TokVars, TransVars, SparkVars>>

(***************************************************************************)
(* Bounds of the model.                                                    *)
(***************************************************************************)
MaxLen == 4
MaxTokens == 4
MaxPredictions == 2
NumCallers == 2
MaxSessions == 4

(***************************************************************************)
(* Helpers on sequences.                                                   *)
(***************************************************************************)
SeqsUpTo(S, n) == UNION {[1..m -> S] : m \in 0..n}

RECURSIVE Flatten(_)
Flatten(ts) == IF ts = <<>> THEN <<>> ELSE Head(ts) \o Flatten(Tail(ts))

(***************************************************************************)
(* SMILESTokenizer.REGEXPS / REGEXP_ORDER                                  *)
(***************************************************************************)
Digits == {"1", "2"}
Alphabet == {"[", "]", "%", "1", "2", "B", "r", "C", "l", "^", "$"}

\* the categories tried lowest first
REGEXP_ORDER_Reversed == <<"brcl", "2_ring_nums", "brackets">>

REGEXP_ORDER == <<"brackets", "2_ring_nums", "brcl">>

\* The length of the match of REGEXPS[regexp] that starts at position i of s,
\* 0 when it does not match there. None of the three patterns matches the
\* empty string.
\*   brackets     \[[^\]]*\]   '[' up to the first ']' after it
\*   2_ring_nums  %\d{2}       '%' and two digits
\*   brcl         Br|Cl
MatchAt(regexp, s, i) ==
    CASE regexp = "brackets" ->
           IF s[i] = "[" /\ \E j \in (i+1)..Len(s) : s[j] = "]"
           THEN (CHOOSE j \in (i+1)..Len(s) :
                    /\ s[j] = "]"
                    /\ \A m \in (i+1)..(j-1) : s[m] # "]") - i + 1
           ELSE 0
      [] regexp = "2_ring_nums" ->
           IF /\ s[i] = "%"
              /\ i + 2 <= Len(s)
              /\ s[i+1] \in Digits
              /\ s[i+2] \in Digits
           THEN 3 ELSE 0
      [] regexp = "brcl" ->
           IF /\ i + 1 <= Len(s)
              /\ \/ s[i] = "B" /\ s[i+1] = "r"
                 \/ s[i] = "C" /\ s[i+1] = "l"
           THEN 2 ELSE 0

\* regexp.split(s) for a pattern that is one capturing group: the text before
\* the first match, the match, the text between, the next match, ..., the
\* text after the last match. Matches are found left to right, each search
\* starting where the previous match ended. `from` is the start of the
\* current unmatched piece and i the position under examination.
RECURSIVE SplitFrom(_, _, _, _)
SplitFrom(regexp, s, from, i) ==
    IF i > Len(s)
    THEN << SubSeq(s, from, Len(s)) >>
    ELSE LET n == MatchAt(regexp, s, i)
         IN  IF n > 0
             THEN << SubSeq(s, from, i - 1), SubSeq(s, i, i + n - 1) >>
                     \o SplitFrom(regexp, s, i + n, i + n)
             ELSE SplitFrom(regexp, s, from, i + 1)

\* A pattern written without its capturing group: split returns only the text
\* between the matches, the matches themselves are lost.
RegexpSplitNoGroup(regexp, s) ==
    LET full == SplitFrom(regexp, s, 1, 1)
    IN  [n \in 1..((Len(full) + 1) \div 2) |-> full[2 * n - 1]]

RegexpSplit(regexp, s) == SplitFrom(regexp, s, 1, 1)

\* list(smiles): one token per character
CharList(s) == [i \in 1..Len(s) |-> << s[i] >>]

\* The nested function split_by of tokenize. LoopSplit is its for loop over
\* enumerate(splitted) from index i (0-based, as in the code) on.
RECURSIVE split_by(_, _)
RECURSIVE LoopSplit(_, _, _)
LoopSplit(splitted, i, regexps) ==
    IF i >= Len(splitted)
    THEN <<>>
    ELSE (IF i % 2 = 0
          THEN split_by(splitted[i + 1], Tail(regexps))
          ELSE << splitted[i + 1] >>)
         \o LoopSplit(splitted, i + 1, regexps)

split_by(s, regexps) ==
    IF regexps = <<>>
    THEN CharList(s)
    ELSE LoopSplit(RegexpSplit(Head(regexps), s), 0, regexps)

tokenize(s, b) ==
    LET toks == split_by(s, REGEXP_ORDER)
    IN  IF b THEN << <<"^">> >> \o toks \o << <<"$">> >> ELSE toks

\* untokenize: the loop over tokens, stopping at the first "$" and skipping "^"
RECURSIVE UntokenizeLoop(_, _)
UntokenizeLoop(ts, acc) ==
    IF ts = <<>> THEN acc
    ELSE IF Head(ts) = <<"$">> THEN acc
    ELSE IF Head(ts) # <<"^">> THEN UntokenizeLoop(Tail(ts), acc \o Head(ts))
    ELSE UntokenizeLoop(Tail(ts), acc)

\* The loop with `continue` in the place of `break`: "$" is skipped like "^".
RECURSIVE UntokenizeLoopContinue(_, _)
UntokenizeLoopContinue(ts, acc) ==
    IF ts = <<>> THEN acc
    ELSE IF Head(ts) = <<"$">> THEN UntokenizeLoopContinue(Tail(ts), acc)
    ELSE IF Head(ts) # <<"^">>
         THEN UntokenizeLoopContinue(Tail(ts), acc \o Head(ts))
    ELSE UntokenizeLoopContinue(Tail(ts), acc)

untokenizeContinue(ts) == UntokenizeLoopContinue(ts, <<>>)

untokenize(ts) == UntokenizeLoop(ts, <<>>)

(***************************************************************************)
(* ComponentSpecificParametersEnum, TransformationTypeEnum and the        *)
(* registry of TransformationFactory.                                      *)
(***************************************************************************)
LOW == "low"
HIGH == "high"
K == "k"
COEF_DIV == "coef_div"
COEF_SI == "coef_si"
COEF_SE == "coef_se"
TRANSFORMATION_TYPE == "transformation_type"

\* _default_transformation_function_registry: kind -> bound method
DefaultRegistry ==
    [kind \in {"sigmoid", "reverse_sigmoid", "double_sigmoid",
               "no_transformation", "right_step", "step"} |->
        CASE kind = "sigmoid" -> "sigmoid_transformation"
          [] kind = "reverse_sigmoid" -> "reverse_sigmoid_transformation"
          [] kind = "double_sigmoid" -> "double_sigmoid"
          [] kind = "no_transformation" -> "no_transformation"
          [] kind = "right_step" -> "right_step"
          [] kind = "step" -> "step"]

(***************************************************************************)
(* Numbers. Scores and parameters are integers. A computed element is a   *)
(* record [t, x]: t = "num" with x = <<n>> is the number n; t = "sig" with *)
(* x = <<n, d>> is the float 1 / (1 + 10 ** (n/d)); t = "dsig" with x the  *)
(* four fractions a, l, c, h one after the other is the float              *)
(*   10**a / (10**a + 10**l) - 10**c / (10**c + 10**h).                    *)
(* The value of such a float is not computed; what float arithmetic        *)
(* decides about its exponents (overflow, underflow to 0.0, division by    *)
(* zero) is. Exponents are exact fractions in lowest terms.                *)
(***************************************************************************)
Num(n) == [t |-> "num", x |-> <<n>>]

Abs(n) == IF n < 0 THEN -n ELSE n

RECURSIVE Gcd(_, _)
Gcd(a, b) == IF b = 0 THEN a ELSE Gcd(b, a % b)

\* the fraction n/d (d # 0) in lowest terms, with a positive denominator
Frac(n, d) ==
    LET g == Gcd(Abs(n), Abs(d))
        s == IF d < 0 THEN -1 ELSE 1
    IN  << (s * n) \div g, (s * d) \div g >>

\* 10 ** x for a float x = f[1]/f[2] (f[2] > 0): an OverflowError above
\* log10(DBL_MAX) = 308.2547..., 0.0 below log10 of half the least subnormal
\* (-323.6072...), a positive float between. x is compared as its floor q
\* and the rest r/f[2].
Pow10(f) ==
    LET q == f[1] \div f[2]
        r == f[1] % f[2]
    IN  IF q > 308 \/ (q = 308 /\ r * 10000 > 2547 * f[2]) THEN "overflow"
        ELSE IF q < -324 \/ (q = -324 /\ r * 10000 < 3928 * f[2]) THEN "zero"
        ELSE "finite"

\* An outcome of an evaluation or a call: a value, or an exception raised.
Return(v) == [exc |-> "none", value |-> v]
Raise(e) == [exc |-> e, value |-> <<>>]

\* float32 of an integer: itself up to 2**24 in absolute value, beyond that
\* the nearest multiple of the spacing of float32 there (ties to even).
RECURSIVE Ulp32(_, _)
Ulp32(n, u) == IF n \div u < 16777216 THEN u ELSE Ulp32(n, u * 2)

Float32(n) ==
    IF Abs(n) <= 16777216 THEN n
    ELSE LET u == Ulp32(Abs(n), 1)
             q == Abs(n) \div u
             r == Abs(n) % u
             m == IF 2 * r > u \/ (2 * r = u /\ q % 2 = 1) THEN q + 1 ELSE q
         IN  (IF n < 0 THEN -1 ELSE 1) * m * u

\* np.array(transformed, dtype=np.float32): every element cast to float32,
\* length and order kept. A "sig" or "dsig" element stands for the float32
\* of the float it names.
ToFloat32Array(xs) ==
    [i \in 1..Len(xs) |->
        IF xs[i].t = "num" THEN Num(Float32(xs[i].x[1])) ELSE xs[i]]

\* [f(v) for v in predictions] for an f that may raise: the first exception
\* ends the comprehension and propagates.
RECURSIVE Comprehension(_, _)
Comprehension(rs, acc) ==
    IF rs = <<>> THEN Return(acc)
    ELSE IF Head(rs).exc # "none" THEN Raise(Head(rs).exc)
    ELSE Comprehension(Tail(rs), Append(acc, Head(rs).value))

\* parameters[key] for each key of keys in order: the first absent key raises
\* KeyError.
RECURSIVE Lookup(_, _)
Lookup(params, keys) ==
    IF keys = <<>> THEN "none"
    ELSE IF Head(keys) \notin DOMAIN params THEN "KeyError"
    ELSE Lookup(params, Tail(keys))

(***************************************************************************)
(* The six transformation functions.                                       *)
(***************************************************************************)
no_transformation(preds, params) ==
    Return(ToFloat32Array([i \in 1..Len(preds) |-> Num(preds[i])]))

RightStepFormulaStrict(value, low) == IF value > low THEN Num(1) ELSE Num(0)

RightStepFormula(value, low) == IF value >= low THEN Num(1) ELSE Num(0)

right_step(preds, params) ==
    IF Lookup(params, <<LOW>>) # "none" THEN Raise("KeyError")
    ELSE Return(ToFloat32Array(
            [i \in 1..Len(preds) |-> RightStepFormula(preds[i], params[LOW])]))

StepFormula(value, low, high) ==
    IF low <= value /\ value <= high THEN Num(1) ELSE Num(0)

step(preds, params) ==
    IF Lookup(params, <<LOW, HIGH>>) # "none" THEN Raise("KeyError")
    ELSE Return(ToFloat32Array(
            [i \in 1..Len(preds) |->
                StepFormula(preds[i], params[LOW], params[HIGH])]))

\* 1 / (1 + _exp(pred_val, low, high, k)) with
\* _exp = math.pow(10, 10 * k * (pred_val - (low + high) * 0.5) / (low - high)):
\* the division raises ZeroDivisionError when low = high, math.pow raises
\* OverflowError; nothing catches either.
SigmoidElement(pred_val, low, high, k) ==
    IF low - high = 0 THEN Raise("ZeroDivisionError")
    ELSE LET e == Frac(10 * k * (2 * pred_val - (low + high)), 2 * (low - high))
         IN  IF Pow10(e) = "overflow" THEN Raise("OverflowError")
             ELSE Return([t |-> "sig", x |-> e])

sigmoid_transformation(preds, params) ==
    IF Lookup(params, <<LOW, HIGH, K>>) # "none" THEN Raise("KeyError")
    ELSE LET r == Comprehension(
                    [i \in 1..Len(preds) |->
                        SigmoidElement(preds[i], params[LOW], params[HIGH],
                                       params[K])], <<>>)
         IN  IF r.exc # "none" THEN r ELSE Return(ToFloat32Array(r.value))

\* The body of the try of _reverse_sigmoid_formula:
\* 1 / (1 + 10 ** (k * (value - (high + low) / 2) * 10 / (high - low)))
ReverseSigmoidTry(value, low, high, k) ==
    IF high - low = 0 THEN Raise("ZeroDivisionError")
    ELSE LET e == Frac(k * (2 * value - (high + low)) * 10, 2 * (high - low))
         IN  IF Pow10(e) = "overflow" THEN Raise("OverflowError")
             ELSE Return([t |-> "sig", x |-> e])

\* _reverse_sigmoid_formula with no try around its body
ReverseSigmoidFormulaNoTry(value, low, high, k) ==
    ReverseSigmoidTry(value, low, high, k)

\* _reverse_sigmoid_formula: try ... except: return 0
ReverseSigmoidFormula(value, low, high, k) ==
    LET r == ReverseSigmoidTry(value, low, high, k)
    IN  IF r.exc # "none" THEN Return(Num(0)) ELSE r

reverse_sigmoid_transformation(preds, params) ==
    IF Lookup(params, <<LOW, HIGH, K>>) # "none" THEN Raise("KeyError")
    ELSE LET r == Comprehension(
                    [i \in 1..Len(preds) |->
                        ReverseSigmoidFormula(preds[i], params[LOW],
                                              params[HIGH], params[K])], <<>>)
         IN  IF r.exc # "none" THEN r ELSE Return(ToFloat32Array(r.value))

\* The body of the try of _double_sigmoid_formula. value / coef_div raises
\* ZeroDivisionError when coef_div = 0; each 10 ** ... may raise
\* OverflowError; a quotient raises ZeroDivisionError when both powers of its
\* denominator underflowed to 0.0.
DoubleSigmoidTry(value, low, high, coef_div, coef_si, coef_se) ==
    IF coef_div = 0 THEN Raise("ZeroDivisionError")
    ELSE LET se == Frac(coef_se, coef_div)
             si == Frac(coef_si, coef_div)
             a == Frac(se[1] * value, se[2])
             l == Frac(se[1] * low, se[2])
             c == Frac(si[1] * value, si[2])
             h == Frac(si[1] * high, si[2])
         IN  IF Pow10(a) = "overflow" \/ Pow10(l) = "overflow" THEN Raise("OverflowError")
             ELSE IF Pow10(c) = "overflow" \/ Pow10(h) = "overflow" THEN Raise("OverflowError")
             ELSE IF Pow10(c) = "zero" /\ Pow10(h) = "zero" THEN Raise("ZeroDivisionError")
             ELSE IF Pow10(a) = "zero" /\ Pow10(l) = "zero" THEN Raise("ZeroDivisionError")
             ELSE Return([t |-> "dsig", x |-> a \o l \o c \o h])

\* _double_sigmoid_formula: try ... except: return 0
DoubleSigmoidFormula(value, low, high, coef_div, coef_si, coef_se) ==
    LET r == DoubleSigmoidTry(value, low, high, coef_div, coef_si, coef_se)
    IN  IF r.exc # "none" THEN Return(Num(0)) ELSE r

\* parameters.get(key, default) in the place of parameters[key]
GetOr(params, key, default) == IF key \in DOMAIN params THEN params[key] ELSE default

\* double_sigmoid reading its coefficients with the defaults of the formula's
\* signature (100., 150., 150.) when they are absent
double_sigmoid_defaults(preds, params) ==
    IF Lookup(params, <<LOW, HIGH>>) # "none" THEN Raise("KeyError")
    ELSE LET r == Comprehension(
                    [i \in 1..Len(preds) |->
                        DoubleSigmoidFormula(preds[i], params[LOW], params[HIGH],
                            GetOr(params, COEF_DIV, 100),
                            GetOr(params, COEF_SI, 150),
                            GetOr(params, COEF_SE, 150))], <<>>)
         IN  IF r.exc # "none" THEN r ELSE Return(ToFloat32Array(r.value))

double_sigmoid(preds, params) ==
    IF Lookup(params, <<LOW, HIGH, COEF_DIV, COEF_SI, COEF_SE>>) # "none"
    THEN Raise("KeyError")
    ELSE LET r == Comprehension(
                    [i \in 1..Len(preds) |->
                        DoubleSigmoidFormula(preds[i], params[LOW], params[HIGH],
                            params[COEF_DIV], params[COEF_SI], params[COEF_SE])],
                    <<>>)
         IN  IF r.exc # "none" THEN r ELSE Return(ToFloat32Array(r.value))

\* the tokenizer is not in use
TokIdle ==
    /\ pc = "idle"
    /\ smiles = <<>>
    /\ with_begin_and_end = FALSE
    /\ tokens = <<>>
    /\ smi = <<>>

(***************************************************************************)
(* The transformation engine as a state machine. A caller holds a         *)
(* parameter dict and a score list, resolves the function with            *)
(* get_transformation_function and calls what it got; every caller uses   *)
(* the one registry of the factory.                                        *)
(***************************************************************************)
EmptyDict == [key \in {} |-> 0]

\* the dicts that hold key with a value of S, or do not hold it
Opt(key, S) == {EmptyDict} \cup {[x \in {key} |-> v] : v \in S}

Scores == {-300, 1, 300, 16777217}
LowHighValues == {-300, 0, 2}

ParameterSets ==
    { l @@ h @@ k @@ d @@ si @@ se @@ ty :
        l \in Opt(LOW, LowHighValues), h \in Opt(HIGH, LowHighValues), k \in Opt(K, {1}),
        d \in Opt(COEF_DIV, {0, 100}), si \in Opt(COEF_SI, {150}),
        se \in Opt(COEF_SE, {150}),
        ty \in Opt(TRANSFORMATION_TYPE, DOMAIN DefaultRegistry \cup {"bogus"}) }

PredictionLists == SeqsUpTo(Scores, MaxPredictions)

\* The parameter dicts of the callers that share a factory: every key
\* present with low = high, or all but low present.
SharedParameterSets ==
    { p \in ParameterSets :
        /\ {HIGH, K, COEF_DIV, COEF_SI, COEF_SE} \subseteq DOMAIN p
        /\ p[HIGH] = 0 /\ p[COEF_DIV] = 100
        /\ LOW \in DOMAIN p => p[LOW] = 0 }

NoOutcome == Return(<<>>)

\* TransformationFactory.__init__ has run; callers cs hold their arguments.
InitFactory(cs, PS, LS) ==
    /\ registry = DefaultRegistry
    /\ callers = cs
    /\ parameters \in [cs -> PS]
    /\ predictions \in [cs -> LS]
    /\ transformation_function = [c \in cs |-> "none"]
    /\ outcome = [c \in cs |-> NoOutcome]
    /\ tpc = [c \in cs |-> "ready"]

\* the transformation engine is not in use
TransIdle == InitFactory({}, {EmptyDict}, {<<>>})

\* get_transformation_function with registry.pop(...) in the place of
\* registry[...]: the entry is handed out and removed
get_transformation_function_pop(c) ==
    /\ tpc[c] = "ready"
    /\ IF /\ TRANSFORMATION_TYPE \in DOMAIN parameters[c]
          /\ parameters[c][TRANSFORMATION_TYPE] \in DOMAIN registry
       THEN /\ transformation_function' =
                  [transformation_function EXCEPT
                      ![c] = registry[parameters[c][TRANSFORMATION_TYPE]]]
            /\ registry' = [kind \in DOMAIN registry
                                \ {parameters[c][TRANSFORMATION_TYPE]} |->
                               registry[kind]]
            /\ tpc' = [tpc EXCEPT ![c] = "resolved"]
            /\ UNCHANGED outcome
       ELSE /\ outcome' = [outcome EXCEPT ![c] = Raise("KeyError")]
            /\ tpc' = [tpc EXCEPT ![c] = "lookup_failed"]
            /\ UNCHANGED <<transformation_function, registry>>
    /\ UNCHANGED <<callers, parameters, predictions>>
    /\ UNCHANGED <<TokVars, SparkVars>>

\* get_transformation_function with
\* registry.get(transformation_type, self.no_transformation)
get_transformation_function_default(c) ==
    /\ tpc[c] = "ready"
    /\ IF TRANSFORMATION_TYPE \in DOMAIN parameters[c]
       THEN /\ transformation_function' =
                  [transformation_function EXCEPT
                      ![c] = GetOr(registry, parameters[c][TRANSFORMATION_TYPE],
                                   "no_transformation")]
            /\ tpc' = [tpc EXCEPT ![c] = "resolved"]
            /\ UNCHANGED outcome
       ELSE /\ outcome' = [outcome EXCEPT ![c] = Raise("KeyError")]
            /\ tpc' = [tpc EXCEPT ![c] = "lookup_failed"]
            /\ UNCHANGED transformation_function
    /\ UNCHANGED <<registry, callers, parameters, predictions>>
    /\ UNCHANGED <<TokVars, SparkVars>>

\* get_transformation_function: parameters["transformation_type"], then the
\* registry entry of that value; either lookup raises KeyError.
get_transformation_function(c) ==
    /\ tpc[c] = "ready"
    /\ IF /\ TRANSFORMATION_TYPE \in DOMAIN parameters[c]
          /\ parameters[c][TRANSFORMATION_TYPE] \in DOMAIN registry
       THEN /\ transformation_function' =
                  [transformation_function EXCEPT
                      ![c] = registry[parameters[c][TRANSFORMATION_TYPE]]]
            /\ tpc' = [tpc EXCEPT ![c] = "resolved"]
            /\ UNCHANGED outcome
       ELSE /\ outcome' = [outcome EXCEPT ![c] = Raise("KeyError")]
            /\ tpc' = [tpc EXCEPT ![c] = "lookup_failed"]
            /\ UNCHANGED transformation_function
    /\ UNCHANGED <<registry, callers, parameters, predictions>>
    /\ UNCHANGED <<TokVars, SparkVars>>

\* The caller's call of the function it resolved, with its scores and its
\* parameter dict: the call returns an array or raises.
Called(c, name, r) ==
    /\ tpc[c] = "resolved"
    /\ transformation_function[c] = name
    /\ outcome' = [outcome EXCEPT ![c] = r]
    /\ tpc' = [tpc EXCEPT ![c] = IF r.exc = "none" THEN "returned" ELSE "raised"]
    /\ UNCHANGED <<registry, callers, parameters, predictions,
                   transformation_function>>
    /\ UNCHANGED <<TokVars, SparkVars>>

CallNoTransformation ==
    \E c \in callers :
        Called(c, "no_transformation",
               no_transformation(predictions[c], parameters[c]))

CallRightStep ==
    \E c \in callers :
        Called(c, "right_step", right_step(predictions[c], parameters[c]))

CallStep ==
    \E c \in callers :
        Called(c, "step", step(predictions[c], parameters[c]))

CallSigmoidTransformation ==
    \E c \in callers :
        Called(c, "sigmoid_transformation",
               sigmoid_transformation(predictions[c], parameters[c]))

CallReverseSigmoidTransformation ==
    \E c \in callers :
        Called(c, "reverse_sigmoid_transformation",
               reverse_sigmoid_transformation(predictions[c], parameters[c]))

CallDoubleSigmoid ==
    \E c \in callers :
        Called(c, "double_sigmoid",
               double_sigmoid(predictions[c], parameters[c]))

GetTransformationFunction ==
    \E c \in callers : get_transformation_function(c)

NextTrans ==
    \/ GetTransformationFunction
    \/ CallNoTransformation
    \/ CallRightStep
    \/ CallStep
    \/ CallSigmoidTransformation
    \/ CallReverseSigmoidTransformation
    \/ CallDoubleSigmoid

(***************************************************************************)
(* SparkSessionSingleton. A session is the number Spark made it under; its *)
(* sparkContext has the same number. The calls into pyspark (the builder,  *)
(* getOrCreate, setLogLevel, close) return normally.                       *)
(***************************************************************************)
AppNames == {"a", "b", "c"}

NoPair == [session |-> 0, context |-> 0]

NoCall == [op |-> "none", app_name |-> "", cached |-> FALSE,
           getOrCreate |-> FALSE, params_func |-> FALSE, before |-> EmptyDict]

\* the class is loaded: SESSIONS = {}
InitSessions ==
    /\ SESSIONS = EmptyDict
    /\ created = 0
    /\ closed = {}
    /\ returned = NoPair
    /\ built = [a \in AppNames |-> 0]
    /\ given = [a \in AppNames |-> {}]
    /\ last = NoCall

\* builder.getOrCreate(): the session Spark has running, or a new one
GetOrCreate == ((1..created) \ closed) \cup {created + 1}

\* the body of `if app_name not in cls.SESSIONS:` for the session s that
\* getOrCreate gave
Build(app_name, s) ==
    /\ s <= MaxSessions
    /\ created' = IF s > created THEN s ELSE created
    /\ SESSIONS' = [x \in {app_name} |-> [session |-> s, context |-> s]]
                       @@ SESSIONS
    /\ built' = [built EXCEPT ![app_name] = @ + 1]

\* get with no `if app_name not in cls.SESSIONS`: a session is built at
\* every call
get_rebuild(app_name, params_func) ==
    /\ \E s \in GetOrCreate : Build(app_name, s)
    /\ returned' = SESSIONS'[app_name]
    /\ given' = [given EXCEPT ![app_name] = @ \cup {SESSIONS'[app_name]}]
    /\ last' = [op |-> "get", app_name |-> app_name,
                cached |-> app_name \in DOMAIN SESSIONS,
                getOrCreate |-> TRUE, params_func |-> params_func,
                before |-> SESSIONS]
    /\ UNCHANGED closed
    /\ UNCHANGED <<TokVars, TransVars>>

\* SparkSessionSingleton.get(app_name, params_func): params_func is TRUE when
\* the caller gives one
get(app_name, params_func) ==
    /\ IF app_name \notin DOMAIN SESSIONS
       THEN \E s \in GetOrCreate : Build(app_name, s)
       ELSE UNCHANGED <<SESSIONS, created, built>>
    /\ returned' = SESSIONS'[app_name]
    /\ given' = [given EXCEPT ![app_name] = @ \cup {SESSIONS'[app_name]}]
    /\ last' = [op |-> "get", app_name |-> app_name,
                cached |-> app_name \in DOMAIN SESSIONS,
                getOrCreate |-> app_name \notin DOMAIN SESSIONS,
                params_func |-> params_func /\ app_name \notin DOMAIN SESSIONS,
                before |-> SESSIONS]
    /\ UNCHANGED closed
    /\ UNCHANGED <<TokVars, TransVars>>

Get == \E app_name \in AppNames, params_func \in BOOLEAN : get(app_name, params_func)

\* SparkSessionSingleton.cleanup: every session of SESSIONS is closed, then
\* SESSIONS = {}
cleanup ==
    /\ closed' = closed \cup {SESSIONS[a].session : a \in DOMAIN SESSIONS}
    /\ SESSIONS' = EmptyDict
    /\ built' = [a \in AppNames |-> 0]
    /\ given' = [a \in AppNames |-> {}]
    /\ last' = [NoCall EXCEPT !.op = "cleanup", !.before = SESSIONS]
    /\ UNCHANGED <<created, returned>>
    /\ UNCHANGED <<TokVars, TransVars>>

NextSessions == Get \/ cleanup

(***************************************************************************)
(* The tokenizer as a state machine: a string is tokenized, a token list  *)
(* (the tokenizer's own, or any other) is untokenized.                    *)
(***************************************************************************)
SmilesStrings == SeqsUpTo(Alphabet, MaxLen)

Vocabulary == { <<"^">>, <<"$">>, <<"C">>, <<"C", "l">>, <<"[", "$", "]">> }
TokenLists == SeqsUpTo(Vocabulary, MaxTokens)

Tokenize ==
    /\ pc = "smiles"
    /\ \E b \in BOOLEAN :
          /\ with_begin_and_end' = b
          /\ tokens' = tokenize(smiles, b)
    /\ pc' = "tokenized"
    /\ UNCHANGED <<smiles, smi>>
    /\ UNCHANGED <<TransVars, SparkVars>>

Untokenize ==
    /\ pc \in {"tokenized", "given"}
    /\ smi' = untokenize(tokens)
    /\ pc' = IF pc = "tokenized" THEN "roundtrip" ELSE "untokenized"
    /\ UNCHANGED <<smiles, with_begin_and_end, tokens>>
    /\ UNCHANGED <<TransVars, SparkVars>>

(***************************************************************************)
(* The specifications: the tokenizer, the transformation engine with one  *)
(* caller and with several, the session cache.                            *)
(***************************************************************************)
InitTok ==
    /\ TransIdle
    /\ InitSessions
    /\ smi = <<>>
    /\ with_begin_and_end = FALSE
    /\ \/ pc = "smiles" /\ smiles \in SmilesStrings /\ tokens = <<>>
       \/ pc = "given" /\ smiles = <<>> /\ tokens \in TokenLists

NextTok == Tokenize \/ Untokenize

SpecTok == InitTok /\ [][NextTok]_vars

\* one caller, every parameter dict and score list of the bounds
InitTrans ==
    /\ TokIdle
    /\ InitSessions
    /\ InitFactory({1}, ParameterSets, PredictionLists)

SpecTrans == InitTrans /\ [][NextTrans]_vars

\* NumCallers callers of one factory
InitShared ==
    /\ TokIdle
    /\ InitSessions
    /\ InitFactory(1..NumCallers, SharedParameterSets, {<<1>>})

SpecShared == InitShared /\ [][NextTrans]_vars

InitSpark ==
    /\ TokIdle
    /\ TransIdle
    /\ InitSessions

SpecSpark == InitSpark /\ [][NextSessions]_vars

(***************************************************************************)
(* Properties of the tokenizer.                                            *)
(***************************************************************************)
Chars(s) == {s[i] : i \in 1..Len(s)}

NoSentinel(s) == "^" \notin Chars(s) /\ "$" \notin Chars(s)

\* C1: for every string s that holds neither '^' nor '$', the tokens of
\* tokenize(s, False) concatenated in order are s, and
\* untokenize(tokenize(s, False)) is s: no character is dropped, duplicated
\* or reordered.
C1_RoundTrip ==
    (~with_begin_and_end /\ NoSentinel(smiles)) =>
        /\ pc = "tokenized" => Flatten(tokens) = smiles
        /\ pc = "roundtrip" => smi = smiles

C1_Witness ==
    /\ pc = "roundtrip"
    /\ ~with_begin_and_end
    /\ smiles = <<"C", "l", "[", "]">>
    /\ tokens = << <<"C", "l">>, <<"[", "]">> >>
    /\ smi = smiles

\* The position in the string of the first character of token k.
RECURSIVE TokenStart(_, _)
TokenStart(ts, k) == IF k = 1 THEN 1 ELSE TokenStart(ts, k - 1) + Len(ts[k - 1])

IsBracketToken(t) ==
    /\ Len(t) >= 2
    /\ t[1] = "["
    /\ t[Len(t)] = "]"
    /\ \A m \in 2..(Len(t) - 1) : t[m] # "]"

IsRingToken(t) == Len(t) = 3 /\ t[1] = "%" /\ t[2] \in Digits /\ t[3] \in Digits

IsHalogenToken(t) == t = <<"B", "r">> \/ t = <<"C", "l">>

\* A single-character token at position p of s is not the start of anything
\* a category would have matched there.
IsFallbackToken(t, s, p) ==
    /\ Len(t) = 1
    /\ t[1] = "[" => \A j \in (p + 1)..Len(s) : s[j] # "]"
    /\ t[1] = "%" => ~(p + 2 <= Len(s) /\ s[p + 1] \in Digits /\ s[p + 2] \in Digits)
    /\ t[1] = "B" => ~(p + 1 <= Len(s) /\ s[p + 1] = "r")
    /\ t[1] = "C" => ~(p + 1 <= Len(s) /\ s[p + 1] = "l")

BeforeEnd(ts) ==
    IF \E i \in 1..Len(ts) : ts[i] = <<"$">>
    THEN SubSeq(ts, 1, (CHOOSE i \in 1..Len(ts) :
                           /\ ts[i] = <<"$">>
                           /\ \A j \in 1..(i - 1) : ts[j] # <<"$">>) - 1)
    ELSE ts

NotBegin(t) == t # <<"^">>

\* C3: untokenize(t) is the concatenation, in order, of the tokens before the
\* first "$" of t (all of t without a "$"), the "^" tokens among them left
\* out; nothing at or after the first "$" is in the result.
C3_Untokenize ==
    pc \in {"untokenized", "roundtrip"} =>
        smi = Flatten(SelectSeq(BeforeEnd(tokens), NotBegin))

C3_Witness ==
    /\ pc = "untokenized"
    /\ tokens = << <<"C">>, <<"^">>, <<"$">>, <<"C", "l">> >>
    /\ smi = <<"C">>

(***************************************************************************)
(* Properties of the transformation engine.                                *)
(***************************************************************************)
SixKinds == {"sigmoid", "reverse_sigmoid", "double_sigmoid",
             "no_transformation", "right_step", "step"}

\* the function each kind names
KindFunction(kind) ==
    CASE kind = "sigmoid" -> "sigmoid_transformation"
      [] kind = "reverse_sigmoid" -> "reverse_sigmoid_transformation"
      [] kind = "double_sigmoid" -> "double_sigmoid"
      [] kind = "no_transformation" -> "no_transformation"
      [] kind = "right_step" -> "right_step"
      [] kind = "step" -> "step"

\* the keys each kind requires
RequiredKeys(kind) ==
    CASE kind = "no_transformation" -> {}
      [] kind = "right_step" -> {"low"}
      [] kind = "step" -> {"low", "high"}
      [] kind \in {"sigmoid", "reverse_sigmoid"} -> {"low", "high", "k"}
      [] kind = "double_sigmoid" ->
            {"low", "high", "coef_div", "coef_si", "coef_se"}

\* caller c has called the function it resolved
HasCalled(c) == tpc[c] \in {"returned", "raised"}

KindOf(c) == parameters[c]["transformation_type"]

\* C4: each of the six transformation functions is total: with the kind's
\* required keys in the parameter dict, the call returns (it never raises)
\* a sequence of the length of the score sequence, sigmoid included.
C4_Total ==
    \A c \in callers :
        (HasCalled(c) /\ RequiredKeys(KindOf(c)) \subseteq DOMAIN parameters[c]) =>
            /\ tpc[c] = "returned"
            /\ outcome[c].exc = "none"
            /\ Len(outcome[c].value) = Len(predictions[c])

\* The same of the five functions other than sigmoid.
C4_TotalButSigmoid ==
    \A c \in callers :
        (/\ HasCalled(c)
         /\ KindOf(c) # "sigmoid"
         /\ RequiredKeys(KindOf(c)) \subseteq DOMAIN parameters[c]) =>
            /\ tpc[c] = "returned"
            /\ outcome[c].exc = "none"
            /\ Len(outcome[c].value) = Len(predictions[c])

\* C5: get_transformation_function(parameters) returns the function
\* registered for parameters['transformation_type'] when that is one of the
\* six kinds; when the key is absent or its value is anything else the call
\* raises KeyError and returns no function, never a default one.
C5_Resolution ==
    \A c \in callers :
        tpc[c] # "ready" =>
            IF /\ "transformation_type" \in DOMAIN parameters[c]
               /\ KindOf(c) \in SixKinds
            THEN /\ tpc[c] # "lookup_failed"
                 /\ transformation_function[c] = KindFunction(KindOf(c))
            ELSE /\ tpc[c] = "lookup_failed"
                 /\ outcome[c] = Raise("KeyError")
                 /\ transformation_function[c] = "none"

C5_Witness ==
    \E c \in callers :
        /\ tpc[c] = "lookup_failed"
        /\ "transformation_type" \in DOMAIN parameters[c]
        /\ KindOf(c) = "bogus"
        /\ outcome[c].exc = "KeyError"

\* what the formula of a reverse_sigmoid or double_sigmoid call gives for the
\* score v: a value, or an arithmetic fault
ElementFormula(c, v) ==
    LET p == parameters[c]
    IN  IF KindOf(c) = "reverse_sigmoid"
        THEN ReverseSigmoidTry(v, p["low"], p["high"], p["k"])
        ELSE DoubleSigmoidTry(v, p["low"], p["high"], p["coef_div"],
                              p["coef_si"], p["coef_se"])

\* C6: in reverse_sigmoid and double_sigmoid an element whose formula raises
\* an arithmetic fault (division by zero, overflow) is 0.0 in its own
\* position, every other element has the value its formula gives, and the
\* call returns a sequence of the length of the score sequence. With
\* low = high every element of reverse_sigmoid faults, with coef_div = 0
\* every element of double_sigmoid.
C6_FaultContainment ==
    \A c \in callers :
        (/\ HasCalled(c)
         /\ KindOf(c) \in {"reverse_sigmoid", "double_sigmoid"}
         /\ RequiredKeys(KindOf(c)) \subseteq DOMAIN parameters[c]) =>
            /\ tpc[c] = "returned"
            /\ Len(outcome[c].value) = Len(predictions[c])
            /\ \A i \in 1..Len(predictions[c]) :
                  LET r == ElementFormula(c, predictions[c][i])
                  IN  /\ r.exc \in {"ZeroDivisionError", "OverflowError"} =>
                            outcome[c].value[i] = Num(0)
                      /\ r.exc = "none" => outcome[c].value[i] = r.value
                      /\ (/\ KindOf(c) = "reverse_sigmoid"
                          /\ parameters[c]["low"] = parameters[c]["high"]) =>
                            outcome[c].value[i] = Num(0)
                      /\ (/\ KindOf(c) = "double_sigmoid"
                          /\ parameters[c]["coef_div"] = 0) =>
                            outcome[c].value[i] = Num(0)

C6_Witness ==
    \E c \in callers :
        /\ tpc[c] = "returned"
        /\ KindOf(c) = "reverse_sigmoid"
        /\ parameters[c]["low"] = 0 /\ parameters[c]["high"] = 2
        /\ predictions[c] = <<300, 1>>
        /\ outcome[c].value = << Num(0), [t |-> "sig", x |-> <<0, 1>>] >>

\* C7: when the parameter dict lacks a key the resolved kind requires, the
\* call raises KeyError and returns nothing, whatever the score sequence
\* (the empty one too); no default stands in for the absent key.
\* no_transformation requires no key and always returns.
C7_MissingParameter ==
    \A c \in callers :
        HasCalled(c) =>
            /\ RequiredKeys(KindOf(c)) \ DOMAIN parameters[c] # {} =>
                  /\ tpc[c] = "raised"
                  /\ outcome[c] = Raise("KeyError")
            /\ KindOf(c) = "no_transformation" =>
                  /\ tpc[c] = "returned"
                  /\ outcome[c].exc = "none"

C7_Witness ==
    \E c \in callers :
        /\ tpc[c] = "raised"
        /\ KindOf(c) = "double_sigmoid"
        /\ DOMAIN parameters[c] =
              {"transformation_type", "low", "high", "coef_div", "coef_si"}
        /\ predictions[c] = <<>>
        /\ outcome[c] = Raise("KeyError")

\* C8: right_step gives at each position 1 if value >= low and 0 otherwise,
\* step gives 1 if low <= value <= high and 0 otherwise (all zeros when
\* low > high); the result has the length and order of the scores and holds
\* only 0 and 1.
C8_Steps ==
    \A c \in callers :
        (/\ HasCalled(c)
         /\ KindOf(c) \in {"right_step", "step"}
         /\ RequiredKeys(KindOf(c)) \subseteq DOMAIN parameters[c]) =>
            /\ tpc[c] = "returned"
            /\ Len(outcome[c].value) = Len(predictions[c])
            /\ \A i \in 1..Len(predictions[c]) :
                  LET v == predictions[c][i]
                      low == parameters[c]["low"]
                      got == outcome[c].value[i]
                  IN  /\ got \in {Num(0), Num(1)}
                      /\ KindOf(c) = "right_step" => (got = Num(1) <=> v >= low)
                      /\ KindOf(c) = "step" =>
                            /\ got = Num(1) <=>
                                  (low <= v /\ v <= parameters[c]["high"])
                            /\ low > parameters[c]["high"] => got = Num(0)

C8_Witness ==
    \E c \in callers :
        /\ tpc[c] = "returned"
        /\ KindOf(c) = "step"
        /\ parameters[c]["low"] = -300 /\ parameters[c]["high"] = 0
        /\ predictions[c] = <<-300, 1>>
        /\ outcome[c].value = << Num(1), Num(0) >>

\* C9: the registry built at construction never changes: after any
\* get_transformation_function calls and transformation calls, returning or
\* raising, of any of the callers, it maps exactly the six kinds to the same
\* six functions.
C9_RegistryFixed ==
    /\ DOMAIN registry = SixKinds
    /\ \A kind \in SixKinds : registry[kind] = KindFunction(kind)

C9_Witness ==
    \E c1, c2 \in callers :
        /\ c1 # c2
        /\ tpc[c1] = "raised"
        /\ tpc[c2] = "returned"

====
